---- MODULE Spec2Model ----
(***************************************************************************)
(* Model of release.js (src/release.js, lines 146-375): the release        *)
(* pipeline of dnb-vale-config.                                            *)
(*                                                                         *)
(* Text is a sequence of lexemes.  The characters a version is made of     *)
(* (digits, ".", "-", letters) and whitespace are one lexeme each; the     *)
(* fixed literals of the replacement patterns that hold no such character  *)
(* ("Version:", the download-URL prefix, "/DNB.zip", "Packages =           *)
(* Microsoft") are one lexeme each.                                        *)
(***************************************************************************)
EXTENDS Integers, Sequences, FiniteSets, TLC

(***************************************************************************)
(* Bounds of the model.                                                    *)
(***************************************************************************)
MaxComponent == 0

(***************************************************************************)
(* Lexemes.                                                                *)
(***************************************************************************)
DigitChars == <<"0", "1", "2", "3", "4", "5", "6", "7", "8", "9">>

IsDigit(c) == \E d \in 1..10 : DigitChars[d] = c

DigitValue(c) == (CHOOSE d \in 1..10 : DigitChars[d] = c) - 1

IsSpace(c) == c \in {" ", "\n"}

VERSION_KEY == "Version:"

URL_PREFIX == "https://github.com/davidsneighbour/dnb-vale-config/releases/download/v"

DNB_ZIP_SUFFIX == "/DNB.zip"

PACKAGES_KEY == "Packages = Microsoft"

TEST_MARK == <<"-", "t", "e", "s", "t">>

(***************************************************************************)
(* Constants of the script.                                                *)
(***************************************************************************)
DIST_DIR == "dist"

SRC_DIR == "src"

SECOND_ZIP == <<"dist/DNB.zip">>

README_PATH == "README.md"

VALE_INI_PATH == "src/DNB/.vale.ini"

ACCEPT_PATH == "src/DNB/styles/config/vocabularies/DNB/accept.txt"

REJECT_PATH == "src/DNB/styles/config/vocabularies/DNB/reject.txt"

PACKAGE_PATH == "package.json"

\* the segments path.join gives the paths below SRC_DIR
PathSegments(path) ==
    CASE path = VALE_INI_PATH -> <<SRC_DIR, "DNB", ".vale.ini">>
      [] path = ACCEPT_PATH ->
             <<SRC_DIR, "DNB", "styles", "config", "vocabularies", "DNB", "accept.txt">>
      [] path = REJECT_PATH ->
             <<SRC_DIR, "DNB", "styles", "config", "vocabularies", "DNB", "reject.txt">>
      [] OTHER -> <<path>>

(***************************************************************************)
(* String primitives of JavaScript, as the script uses them.               *)
(***************************************************************************)
\* lit occurs in s starting at index i
StartsAt(s, i, lit) ==
    /\ i >= 1
    /\ i + Len(lit) - 1 <= Len(s)
    /\ \A k \in 1..Len(lit) : s[i + k - 1] = lit[k]

\* String.prototype.includes
Includes(s, lit) == \E i \in 1..(Len(s) + 1) : StartsAt(s, i, lit)

\* String.prototype.trim
TrimStart(s) ==
    IF \A i \in 1..Len(s) : IsSpace(s[i])
    THEN << >>
    ELSE SubSeq(s, CHOOSE i \in 1..Len(s) :
                       /\ ~IsSpace(s[i])
                       /\ \A j \in 1..(i - 1) : IsSpace(s[j]),
                Len(s))

TrimEnd(s) ==
    IF \A i \in 1..Len(s) : IsSpace(s[i])
    THEN << >>
    ELSE SubSeq(s, 1, CHOOSE i \in 1..Len(s) :
                          /\ ~IsSpace(s[i])
                          /\ \A j \in (i + 1)..Len(s) : IsSpace(s[j]))

Trim(s) == TrimEnd(TrimStart(s))

\* String.prototype.split('.') : the pieces between the dots
RECURSIVE SplitDots(_)
SplitDots(s) ==
    IF \A i \in 1..Len(s) : s[i] # "."
    THEN <<s>>
    ELSE LET d == CHOOSE i \in 1..Len(s) :
                      /\ s[i] = "."
                      /\ \A j \in 1..(i - 1) : s[j] # "."
         IN  <<SubSeq(s, 1, d - 1)>> \o SplitDots(SubSeq(s, d + 1, Len(s)))

(***************************************************************************)
(* JavaScript numbers as the script meets them: a non-negative integer,    *)
(* NaN, or the value undefined of a missing array element.                 *)
(***************************************************************************)
Num(n) == [kind |-> "num", n |-> n]

NaN == [kind |-> "NaN", n |-> 0]

Undefined == [kind |-> "undefined", n |-> 0]

RECURSIVE DecimalValue(_)
DecimalValue(s) ==
    IF Len(s) = 0 THEN 0
    ELSE 10 * DecimalValue(SubSeq(s, 1, Len(s) - 1)) + DigitValue(s[Len(s)])

\* Number(str): "" is 0, a run of digits is its value, anything else NaN
Number(s) ==
    IF \A i \in 1..Len(s) : IsDigit(s[i]) THEN Num(DecimalValue(s)) ELSE NaN

\* x + 1 on a JavaScript number
PlusOne(x) == IF x.kind = "num" THEN Num(x.n + 1) ELSE NaN

RECURSIVE Decimal(_)
Decimal(n) ==
    IF n < 10 THEN <<DigitChars[n + 1]>>
    ELSE Decimal(n \div 10) \o <<DigitChars[(n % 10) + 1]>>

\* `${x}` inside a template literal
Render(x) ==
    CASE x.kind = "num" -> Decimal(x.n)
      [] x.kind = "NaN" -> <<"N", "a", "N">>
      [] OTHER -> <<"u", "n", "d", "e", "f", "i", "n", "e", "d">>

\* const [major, minor, patch] = version.split('.').map(Number)
Component(parts, k) == IF k <= Len(parts) THEN Number(parts[k]) ELSE Undefined

(***************************************************************************)
(* The regular expressions of the script.  Each operator gives, for a      *)
(* match attempted at index i, the index just after the match, or 0 when   *)
(* the expression does not match there.  Every quantifier of the           *)
(* expressions is followed by a lexeme outside its class, so greedy        *)
(* matching never has to back off.                                         *)
(***************************************************************************)
\* \s* from i: the first index at or after i that holds no whitespace
SkipSpaces(s, i) ==
    CHOOSE j \in i..(Len(s) + 1) :
        /\ \A k \in i..(j - 1) : IsSpace(s[k])
        /\ j = Len(s) + 1 \/ ~IsSpace(s[j])

\* \d* from i
SkipDigits(s, i) ==
    CHOOSE j \in i..(Len(s) + 1) :
        /\ \A k \in i..(j - 1) : IsDigit(s[k])
        /\ j = Len(s) + 1 \/ ~IsDigit(s[j])

\* \d+\.\d+\.\d+(-test)?
VersionEnd(s, i) ==
    LET a == SkipDigits(s, i)
        b == SkipDigits(s, a + 1)
        c == SkipDigits(s, b + 1)
    IN  IF /\ i >= 1 /\ i <= Len(s)
           /\ a > i /\ a <= Len(s) /\ s[a] = "."
           /\ b > a + 1 /\ b <= Len(s) /\ s[b] = "."
           /\ c > b + 1
        THEN IF StartsAt(s, c, TEST_MARK) THEN c + Len(TEST_MARK) ELSE c
        ELSE 0

\* /#\s*Version:\s*\d+\.\d+\.\d+(-test)?/
VersionLineEnd(s, i) ==
    LET j == SkipSpaces(s, i + 1)
        k == SkipSpaces(s, j + 1)
    IN  IF /\ i >= 1 /\ i <= Len(s) /\ s[i] = "#"
           /\ j <= Len(s) /\ s[j] = VERSION_KEY
        THEN VersionEnd(s, k)
        ELSE 0

\* the link pattern without the file name at its end
LinkEndAnyArtifact(s, i) ==
    LET e == VersionEnd(s, i + 1)
    IN  IF /\ i >= 1 /\ i <= Len(s) /\ s[i] = URL_PREFIX
           /\ e # 0 /\ e <= Len(s)
        THEN e + 1
        ELSE 0

\* /https:\/\/github\.com\/...\/releases\/download\/v\d+\.\d+\.\d+(-test)?\/DNB\.zip/
LinkEnd(s, i) ==
    LET e == VersionEnd(s, i + 1)
    IN  IF /\ i >= 1 /\ i <= Len(s) /\ s[i] = URL_PREFIX
           /\ e # 0 /\ e <= Len(s) /\ s[e] = DNB_ZIP_SUFFIX
        THEN e + 1
        ELSE 0

\* /Packages = Microsoft,?\s*https:\/\/...\/v\d+\.\d+\.\d+(-test)?\/DNB\.zip/
PackagesLinkEnd(s, i) ==
    LET j == IF i + 1 <= Len(s) /\ s[i + 1] = "," THEN i + 2 ELSE i + 1
        k == SkipSpaces(s, j)
    IN  IF i >= 1 /\ i <= Len(s) /\ s[i] = PACKAGES_KEY
        THEN LinkEnd(s, k)
        ELSE 0

\* content.replace(regex, replacement) with a regex that has no g flag:
\* the leftmost match is replaced, a text without a match is returned as is
\* the three regular expressions by name
MatchEnd(pattern, s, i) ==
    CASE pattern = "version line" -> VersionLineEnd(s, i)
      [] pattern = "link" -> LinkEnd(s, i)
      [] pattern = "packages link" -> PackagesLinkEnd(s, i)

ReplaceFirst(s, pattern, replacement) ==
    IF \A i \in 1..Len(s) : MatchEnd(pattern, s, i) = 0
    THEN s
    ELSE CHOOSE replaced \in
             {SubSeq(s, 1, m - 1) \o replacement
                  \o SubSeq(s, MatchEnd(pattern, s, m), Len(s)) :
              m \in {i \in 1..Len(s) :
                        /\ MatchEnd(pattern, s, i) # 0
                        /\ \A j \in 1..(i - 1) : MatchEnd(pattern, s, j) = 0}} :
             TRUE

(***************************************************************************)
(* The replacement templates.                                              *)
(***************************************************************************)
VersionLine(newVersion) == <<"#", " ", VERSION_KEY, " ">> \o newVersion

Link(newVersion) == <<URL_PREFIX>> \o newVersion \o <<DNB_ZIP_SUFFIX>>

PackagesLink(newVersion) == <<PACKAGES_KEY, ",", "\n">> \o Link(newVersion)

\* updateVersionInFile: the content written back to an existing file
UpdatedContent(content, newVersion) ==
    ReplaceFirst(content, "version line", VersionLine(newVersion))

\* bumpVersion: the content written back to README.md
UpdatedReadmeContent(content, newVersion) ==
    CHOOSE updated \in
        {ReplaceFirst(linked, "packages link", PackagesLink(newVersion)) :
         linked \in {ReplaceFirst(content, "link", Link(newVersion))}} :
        TRUE

(***************************************************************************)
(* Version computation of bumpVersion.                                     *)
(***************************************************************************)
Dot(a, b, c) == a \o <<".">> \o b \o <<".">> \o c

\* if (bumpType.includes('-test'))
IsTestVersion(bumpType) == Includes(bumpType, TEST_MARK)

\* the switch with a minor bump that forgets to reset the patch component
BumpedVersionKeepingPatch(version, bumpType) ==
    LET parts == SplitDots(version)
        major == Component(parts, 1)
        minor == Component(parts, 2)
        patch == Component(parts, 3)
    IN  CASE bumpType = <<"major">> ->
                 Dot(Render(PlusOne(major)), <<"0">>, <<"0">>)
          [] bumpType = <<"minor">> ->
                 Dot(Render(major), Render(PlusOne(minor)), Render(patch))
          [] OTHER ->
                 Dot(Render(major), Render(minor), Render(PlusOne(patch)))

\* the switch with a patch bump that forgets the increment
BumpedVersionNoIncrement(version, bumpType) ==
    LET parts == SplitDots(version)
        major == Component(parts, 1)
        minor == Component(parts, 2)
        patch == Component(parts, 3)
    IN  CASE bumpType = <<"major">> ->
                 Dot(Render(PlusOne(major)), <<"0">>, <<"0">>)
          [] bumpType = <<"minor">> ->
                 Dot(Render(major), Render(PlusOne(minor)), <<"0">>)
          [] OTHER ->
                 Dot(Render(major), Render(minor), Render(patch))

\* the switch over bumpType
BumpedVersion(version, bumpType) ==
    LET parts == SplitDots(version)
        major == Component(parts, 1)
        minor == Component(parts, 2)
        patch == Component(parts, 3)
    IN  CASE bumpType = <<"major">> ->
                 Dot(Render(PlusOne(major)), <<"0">>, <<"0">>)
          [] bumpType = <<"minor">> ->
                 Dot(Render(major), Render(PlusOne(minor)), <<"0">>)
          [] OTHER ->
                 Dot(Render(major), Render(minor), Render(PlusOne(patch)))

\* a computation that always works from the stored version
ComputeVersionFromStored(version, bumpType) == BumpedVersion(version, bumpType)

\* lines 237-256: a bump type holding -test is the version itself
ComputeVersion(version, bumpType) ==
    IF IsTestVersion(bumpType) THEN bumpType ELSE BumpedVersion(version, bumpType)

\* path.join(DIST_DIR, `dnb-vale-config-v${newVersion}.zip`)
VersionedZip(newVersion) == <<"dist/dnb-vale-config-v">> \o newVersion \o <<".zip">>

\* the argument handling of main: the bump type bumpVersion is called with
ALLOWED_BUMPS == {<<"patch">>, <<"minor">>, <<"major">>}

\* the argument handling with minor as the fallback
ResolveBumpTypeDefaultMinor(arg) ==
    IF arg.present /\ arg.val # << >> /\ Includes(arg.val, TEST_MARK)
    THEN arg.val
    ELSE IF arg.present /\ arg.val \in ALLOWED_BUMPS THEN arg.val ELSE <<"minor">>

ResolveBumpType(arg) ==
    IF arg.present /\ arg.val # << >> /\ Includes(arg.val, TEST_MARK)
    THEN arg.val
    ELSE IF arg.present /\ arg.val \in ALLOWED_BUMPS THEN arg.val ELSE <<"patch">>

(***************************************************************************)
(* State.                                                                  *)
(*   pc          position of main (the async function of lines 349-375)    *)
(*   argv        process.argv[2]                                           *)
(*   bumpType    the bump type main resolved                               *)
(*   git         what `git status --porcelain` answers in this work tree   *)
(*   pkg         package.json                                              *)
(*   files       the version-bearing text files                            *)
(*   newVersion  the version bumpVersion computed                          *)
(*   OUTPUT_ZIP  the global output path                                    *)
(*   streams     the write streams createZip opened, in order              *)
(*   log         the file writes and external commands issued, in order    *)
(*   exitCode    the exit code of the process, "none" while it runs        *)
(*   initial     package.json and the files as the run found them          *)
(***************************************************************************)
VARIABLES pc, argv, bumpType, git, pkg, files, newVersion, OUTPUT_ZIP,
          streams, log, exitCode, initial

vars == <<pc, argv, bumpType, git, pkg, files, newVersion, OUTPUT_ZIP,
          streams, log, exitCode, initial>>

\* the order in which bumpVersion rewrites the text files
SYNC_ORDER == <<VALE_INI_PATH, ACCEPT_PATH, REJECT_PATH, README_PATH>>

Position(path) == CHOOSE k \in 1..Len(SYNC_ORDER) : SYNC_ORDER[k] = path

(***************************************************************************)
(* The inputs of a run.                                                    *)
(***************************************************************************)
Text(a, b, c) == Dot(Decimal(a), Decimal(b), Decimal(c))

TEST_VERSION == Text(1, 2, 3) \o TEST_MARK

Components == (0..MaxComponent) \cup {9}

PlainVersions == {Text(a, b, c) : a, b, c \in Components}

StoredVersions ==
    PlainVersions \cup {Text(1, 2, 3) \o TEST_MARK, Dot(<<"1">>, <<"2">>, << >>),
                        <<"1", ".", "2">>}

Arguments ==
    {[present |-> FALSE, val |-> << >>]}
        \cup {[present |-> TRUE, val |-> v] :
                 v \in ALLOWED_BUMPS \cup {TEST_VERSION, TEST_VERSION \o <<"2">>,
                                           <<"f", "o", "o">>}}

GitAnswers ==
    {[ok |-> TRUE, stdout |-> << >>],
     [ok |-> TRUE, stdout |-> <<"\n">>],
     [ok |-> TRUE, stdout |-> <<" ", "M", " ", README_PATH, "\n">>],
     [ok |-> FALSE, stdout |-> << >>]}

Manifests ==
    {[readable |-> TRUE, hasVersion |-> TRUE, version |-> v, indent |-> i,
      rest |-> "fields"] : v \in StoredVersions, i \in {4}}
        \cup {[readable |-> TRUE, hasVersion |-> FALSE, version |-> << >>,
               indent |-> 2, rest |-> "fields"],
              [readable |-> FALSE, hasVersion |-> FALSE, version |-> << >>,
               indent |-> 2, rest |-> "fields"]}

Absent == [exists |-> FALSE, content |-> << >>]

File(content) == [exists |-> TRUE, content |-> content]

IniContents ==
    {Absent,
     File(<<"#", " ", VERSION_KEY, " ">> \o Text(0, 0, 3) \o <<"\n", "x">>),
     File(<<"x", "\n", "#", VERSION_KEY>> \o TEST_VERSION \o <<"\n">>),
     File(<<"#", " ", "x">>)}

VocabularyContents ==
    {Absent, File(<<"#", " ", VERSION_KEY, " ">> \o Text(0, 0, 3) \o <<"\n", "w">>)}

ReadmeContents ==
    {Absent,
     File(<<URL_PREFIX>> \o Text(0, 0, 3) \o <<"/config.zip", " ">>
              \o Link(Text(0, 0, 3)) \o <<"\n", PACKAGES_KEY, ",", " ">>
              \o Link(Text(0, 0, 3)) \o <<"\n">>),
     File(<<PACKAGES_KEY, " ">> \o Link(TEST_VERSION) \o <<" ">>
              \o Link(Text(0, 0, 3))),
     File(<<"x", " ", URL_PREFIX>> \o Text(0, 0, 3) \o <<"/config.zip">>)}

Init ==
    /\ pc = "start"
    /\ argv \in Arguments
    /\ bumpType = << >>
    /\ git \in GitAnswers
    /\ pkg \in Manifests
    /\ \E ini \in IniContents, vocabulary \in VocabularyContents,
          readme \in ReadmeContents :
           files = [p \in {VALE_INI_PATH, ACCEPT_PATH, REJECT_PATH, README_PATH} |->
                       CASE p = VALE_INI_PATH -> ini
                         [] p = README_PATH -> readme
                         [] p = ACCEPT_PATH -> vocabulary
                         [] OTHER -> Absent]
    /\ newVersion = << >>
    /\ OUTPUT_ZIP = << >>
    /\ streams = << >>
    /\ log = << >>
    /\ exitCode = "none"
    /\ initial = [pkg |-> pkg, files |-> files]

(***************************************************************************)
(* Steps of main.                                                          *)
(***************************************************************************)
Entry(op, arg, ok) == [op |-> op, arg |-> arg, ok |-> ok]

\* a catch that logs the error and lets the process end by itself
CatchWithoutExit ==
    /\ pc' = "failed"
    /\ exitCode' = "0"

\* catch (error) { log(...); process.exit(1); }
Catch ==
    /\ pc' = "failed"
    /\ exitCode' = "1"

\* lines 351-358: the argument becomes the bump type
ResolveArgument ==
    /\ pc = "start"
    /\ bumpType' = ResolveBumpType(argv)
    /\ pc' = "ensureCleanGitState"
    /\ UNCHANGED <<argv, git, pkg, files, newVersion, OUTPUT_ZIP, streams, log,
                   exitCode, initial>>

\* a check that looks at nothing
HasUncommittedChangesIgnored(stdout) == FALSE

\* if (stdout.trim()) throw
HasUncommittedChanges(stdout) == Trim(stdout) # << >>

EnsureCleanGitState ==
    /\ pc = "ensureCleanGitState"
    /\ log' = Append(log, Entry("git status", << >>, git.ok))
    /\ IF ~git.ok \/ HasUncommittedChanges(git.stdout)
       THEN Catch
       ELSE pc' = "bumpVersion" /\ UNCHANGED exitCode
    /\ UNCHANGED <<argv, bumpType, git, pkg, files, newVersion, OUTPUT_ZIP,
                   streams, initial>>

\* writes that are all undone when one of them throws
WrittenAllOrNothing(k, failAt) == failAt = 0

\* the write of step k of bumpVersion is reached and does not throw:
\* step 1 writes package.json, step k + 1 the k-th file of SYNC_ORDER;
\* failAt is the step whose write throws, 0 when none does
Written(k, failAt) == failAt = 0 \/ k < failAt

Attempted(k, failAt) == failAt = 0 \/ k <= failAt

NewContent(path, content, version) ==
    IF path = README_PATH
    THEN UpdatedReadmeContent(content, version)
    ELSE UpdatedContent(content, version)

\* an update that writes the file whether or not it was there
UpdatedFileCreating(path, file, version) ==
    [exists |-> TRUE, content |-> NewContent(path, file.content, version)]

\* if (fs.existsSync(filePath)) { read, replace, write } else { log }
UpdatedFile(path, file, version) ==
    IF file.exists
    THEN [exists |-> TRUE, content |-> NewContent(path, file.content, version)]
    ELSE file

\* a manifest written anew from the version alone
WrittenManifestVersionOnly(manifest, version) ==
    [readable |-> TRUE, hasVersion |-> TRUE, version |-> version, indent |-> 2,
     rest |-> "none"]

\* JSON.stringify(packageJson, null, 2) after packageJson.version = newVersion
WrittenManifest(manifest, version) ==
    [manifest EXCEPT !.hasVersion = TRUE, !.version = version, !.indent = 2]

RECURSIVE FileWrites(_, _)
FileWrites(k, failAt) ==
    IF k > Len(SYNC_ORDER) THEN << >>
    ELSE (IF files[SYNC_ORDER[k]].exists /\ Attempted(k + 1, failAt)
          THEN <<Entry("write", <<<<SYNC_ORDER[k]>>>>, Written(k + 1, failAt))>>
          ELSE << >>) \o FileWrites(k + 1, failAt)

BumpVersion ==
    /\ pc = "bumpVersion"
    /\ \/ \* getPackageJson throws, or undefined has no split
          /\ ~pkg.readable \/ (~IsTestVersion(bumpType) /\ ~pkg.hasVersion)
          /\ Catch
          /\ UNCHANGED <<pkg, files, newVersion, OUTPUT_ZIP, log>>
       \/ /\ pkg.readable
          /\ IsTestVersion(bumpType) \/ pkg.hasVersion
          /\ \E failAt \in 0..(Len(SYNC_ORDER) + 1) :
               LET version == ComputeVersion(pkg.version, bumpType)
               IN  /\ failAt > 1 => files[SYNC_ORDER[failAt - 1]].exists
                   /\ newVersion' = version
                   /\ pkg' = IF Written(1, failAt)
                             THEN WrittenManifest(pkg, version)
                             ELSE pkg
                   /\ files' = [p \in DOMAIN files |->
                                   IF Written(Position(p) + 1, failAt)
                                   THEN UpdatedFile(p, files[p], version)
                                   ELSE files[p]]
                   /\ log' = log \o <<Entry("write", <<<<PACKAGE_PATH>>>>, Written(1, failAt))>>
                                 \o FileWrites(1, failAt)
                   /\ IF failAt = 0
                      THEN /\ OUTPUT_ZIP' = VersionedZip(version)
                           /\ pc' = "createZip1"
                           /\ UNCHANGED exitCode
                      ELSE Catch /\ UNCHANGED OUTPUT_ZIP
    /\ UNCHANGED <<argv, bumpType, git, streams, initial>>

\* the files of the tree below the directory dir
FilesUnder(dir, tree) ==
    {p \in DOMAIN tree :
        tree[p].exists /\ Len(PathSegments(p)) > 1 /\ PathSegments(p)[1] = dir}

\* an entry named by the whole path, the directory included
EntryNameKeepingRoot(path, dir, destpath) == destpath \o PathSegments(path)

\* archive.directory(dir, destpath) names an entry by the path relative to
\* dir, below destpath; destpath false is the root of the archive, << >>
EntryName(path, dir, destpath) == destpath \o Tail(PathSegments(path))

DirectoryEntries(dir, destpath, tree) ==
    {[name |-> EntryName(p, dir, destpath), content |-> tree[p].content] :
        p \in FilesUnder(dir, tree)}

\* createZip(zipPath, description), called at position from, returning to
\* position to.  mkdir may reject; the stream is opened and piped; what is
\* awaited is archive.finalize() alone, so on return the stream is open
CreateZip(zipPath, from, to) ==
    /\ pc = from
    /\ \E outcome \in {"returns", "mkdir rejects", "finalize rejects"} :
         /\ log' = Append(log, Entry("zip", <<zipPath>>, outcome = "returns"))
         /\ streams' = IF outcome = "mkdir rejects"
                       THEN streams
                       ELSE Append(streams,
                                   [path |-> zipPath, state |-> "open",
                                    entries |-> DirectoryEntries(SRC_DIR, << >>, files)])
         /\ IF outcome = "returns"
            THEN pc' = to /\ UNCHANGED exitCode
            ELSE Catch
    /\ UNCHANGED <<argv, bumpType, git, pkg, files, newVersion, OUTPUT_ZIP,
                   initial>>

\* a release step without its guard
ReleaseWantedAlways(type) == TRUE

\* if (!bumpType.includes('-test'))
ReleaseWanted(type) == ~IsTestVersion(type)

CreateVersionedZip == CreateZip(OUTPUT_ZIP, "createZip1", "createZip2")

CreateSecondZip ==
    CreateZip(SECOND_ZIP, "createZip2",
              IF ReleaseWanted(bumpType) THEN "commit" ELSE "returned")

\* an execPromise whose rejection is swallowed
ExecIgnoringFailure(op, arg, from, to) ==
    /\ pc = from
    /\ \E ok \in BOOLEAN : log' = Append(log, Entry(op, arg, ok))
    /\ pc' = to
    /\ UNCHANGED <<argv, bumpType, git, pkg, files, newVersion, OUTPUT_ZIP,
                   streams, exitCode, initial>>

\* an execPromise that is left pending when its command fails
ExecNeverSettling(op, arg, from, to) ==
    /\ pc = from
    /\ \E ok \in BOOLEAN :
         /\ log' = Append(log, Entry(op, arg, ok))
         /\ pc' = IF ok THEN to ELSE "pending"
    /\ UNCHANGED <<argv, bumpType, git, pkg, files, newVersion, OUTPUT_ZIP,
                   streams, exitCode, initial>>

\* one awaited execPromise of createGitTagAndRelease: a command that exits
\* with a failure rejects, and the rejection reaches the catch of main
Exec(op, arg, from, to) ==
    /\ pc = from
    /\ \E ok \in BOOLEAN :
         /\ log' = Append(log, Entry(op, arg, ok))
         /\ IF ok THEN pc' = to /\ UNCHANGED exitCode ELSE Catch
    /\ UNCHANGED <<argv, bumpType, git, pkg, files, newVersion, OUTPUT_ZIP,
                   streams, initial>>

TagName(version) == <<"v">> \o version

GitCommit == Exec("git commit", <<TagName(newVersion)>>, "commit", "tag")

GitTag == Exec("git tag", <<TagName(newVersion)>>, "tag", "push")

GitPush == Exec("git push", << >>, "push", "release")

\* a release command built from the value OUTPUT_ZIP has before bumpVersion
GhReleaseCreateInitialPath ==
    Exec("gh release create", <<TagName(newVersion), << >>, SECOND_ZIP>>,
         "release", "open")

\* gh release create ${tagName} ${OUTPUT_ZIP} ${SECOND_ZIP}
GhReleaseCreate ==
    Exec("gh release create", <<TagName(newVersion), OUTPUT_ZIP, SECOND_ZIP>>,
         "release", "open")

\* an opener whose failure reaches the catch of main
OpenReleaseEditPageEscalating ==
    Exec("open", <<TagName(newVersion)>>, "open", "returned")

\* openReleaseEditPage: a failure of the opener is caught and logged
OpenReleaseEditPage ==
    /\ pc = "open"
    /\ \E ok \in BOOLEAN :
         log' = Append(log, Entry("open", <<TagName(newVersion)>>, ok))
    /\ pc' = "returned"
    /\ UNCHANGED <<argv, bumpType, git, pkg, files, newVersion, OUTPUT_ZIP,
                   streams, exitCode, initial>>

(***************************************************************************)
(* The write streams of createZip run on the event loop, beside main.      *)
(***************************************************************************)
Running == pc \notin {"done", "failed", "crashed"}

\* the stream has written what was piped into it and closes its file
StreamClose(i) ==
    /\ Running
    /\ streams[i].state = "open"
    /\ streams' = [streams EXCEPT ![i].state = "closed"]
    /\ UNCHANGED <<pc, argv, bumpType, git, pkg, files, newVersion, OUTPUT_ZIP,
                   log, exitCode, initial>>

\* the stream emits 'error'; nothing listens, and the process dies of the
\* uncaught exception
StreamError(i) ==
    /\ Running
    /\ streams[i].state = "open"
    /\ streams' = [streams EXCEPT ![i].state = "error"]
    /\ pc' = "crashed"
    /\ exitCode' = "1"
    /\ UNCHANGED <<argv, bumpType, git, pkg, files, newVersion, OUTPUT_ZIP, log,
                   initial>>

\* main has returned and the event loop is empty: the process ends
Exit ==
    /\ pc = "returned"
    /\ \A i \in 1..Len(streams) : streams[i].state = "closed"
    /\ pc' = "done"
    /\ exitCode' = "0"
    /\ UNCHANGED <<argv, bumpType, git, pkg, files, newVersion, OUTPUT_ZIP,
                   streams, log, initial>>

Next ==
    \/ ResolveArgument
    \/ EnsureCleanGitState
    \/ BumpVersion
    \/ CreateVersionedZip
    \/ CreateSecondZip
    \/ GitCommit
    \/ GitTag
    \/ GitPush
    \/ GhReleaseCreate
    \/ OpenReleaseEditPage
    \/ \E i \in 1..Len(streams) : StreamClose(i)
    \/ \E i \in 1..Len(streams) : StreamError(i)
    \/ Exit

Spec == Init /\ [][Next]_vars

(***************************************************************************)
(* Vocabulary of the properties.                                           *)
(***************************************************************************)
Failed == pc \in {"failed", "crashed"}

ReleaseOps == {"git commit", "git tag", "git push", "gh release create", "open"}

\* the manifest held MAJOR.MINOR.PATCH with the components a, b, c
StoredIs(a, b, c) ==
    /\ initial.pkg.readable
    /\ initial.pkg.hasVersion
    /\ initial.pkg.version = Text(a, b, c)

StoredPlain == \E a, b, c \in Components : StoredIs(a, b, c)

\* bumpVersion returned: every file has been processed
Synced == OUTPUT_ZIP # << >>

\* the pattern a file is rewritten with
PatternOf(path) == IF path = README_PATH THEN "link" ELSE "version line"

FilePatternMatches(path, content) ==
    \E i \in 1..Len(content) : MatchEnd(PatternOf(path), content, i) # 0

\* the index of the first lexeme of the version token in a match at i, and
\* the index just after the token
TokenStart(path, content, i) ==
    IF path = README_PATH
    THEN i + 1
    ELSE SkipSpaces(content, SkipSpaces(content, i + 1) + 1)

TokenEnd(path, content, i) ==
    IF path = README_PATH
    THEN MatchEnd("link", content, i) - 1
    ELSE MatchEnd("version line", content, i)

\* the version a file shows to its own pattern: the token of the leftmost
\* match, the empty text when the pattern does not match
ShownVersion(path, content) ==
    IF ~FilePatternMatches(path, content) THEN << >>
    ELSE LET m == CHOOSE i \in 1..Len(content) :
                      /\ MatchEnd(PatternOf(path), content, i) # 0
                      /\ \A j \in 1..(i - 1) : MatchEnd(PatternOf(path), content, j) = 0
         IN  SubSeq(content, TokenStart(path, content, m),
                    TokenEnd(path, content, m) - 1)

\* MAJOR.MINOR.PATCH, digits only
IsPlainVersion(v) == Len(v) > 0 /\ VersionEnd(v, 1) = Len(v) + 1 /\ ~Includes(v, TEST_MARK)

(***************************************************************************)
(* C1  Dirty-tree gate: when `git status --porcelain` reports a pending    *)
(* change, the run goes from the check to Failed, and at every point of    *)
(* the run package.json and the text files are as the run found them, no   *)
(* archive stream has been opened, and nothing but the status query has    *)
(* been issued.                                                            *)
(***************************************************************************)
ReportsPendingChange ==
    git.ok /\ \E i \in 1..Len(git.stdout) : ~IsSpace(git.stdout[i])

C1_DirtyTreeGate ==
    ReportsPendingChange =>
        /\ pc \in {"start", "ensureCleanGitState", "failed"}
        /\ pc = "failed" => exitCode = "1"
        /\ pkg = initial.pkg
        /\ files = initial.files
        /\ streams = << >>
        /\ \A i \in 1..Len(log) : log[i].op = "git status"

C1_Witness == ReportsPendingChange /\ pc = "failed" /\ Len(log) = 1

(***************************************************************************)
(* C2  Cross-file consistency: after a run that ended in Done with a       *)
(* target version V that is a computed MAJOR.MINOR.PATCH or a literal      *)
(* holding the test marker, every text file that exists and whose pattern  *)
(* matched shows exactly V to its own pattern.                             *)
(***************************************************************************)
C2_CrossFileConsistency ==
    (pc = "done" /\ (IsPlainVersion(newVersion) \/ IsTestVersion(newVersion))) =>
        \A p \in DOMAIN files :
            (/\ initial.files[p].exists
             /\ FilePatternMatches(p, initial.files[p].content))
                => ShownVersion(p, files[p].content) = newVersion

(***************************************************************************)
(* C3  Dry-run safety: in a run whose computed version holds the test      *)
(* marker no commit, tag, push, release creation or browser opening is     *)
(* ever issued.                                                            *)
(***************************************************************************)
C3_DryRunSafety ==
    IsTestVersion(newVersion) => \A i \in 1..Len(log) : log[i].op \notin ReleaseOps

C3_Witness ==
    /\ IsTestVersion(newVersion)
    /\ pc = "done"
    /\ Len(streams) = 2

(***************************************************************************)
(* C4  Bump arithmetic: from a stored version a.b.c of non-negative        *)
(* integers, major yields (a+1).0.0, minor yields a.(b+1).0 and patch      *)
(* yields a.b.(c+1), without a suffix.                                     *)
(***************************************************************************)
C4_BumpArithmetic ==
    \A a, b, c \in Components :
        (StoredIs(a, b, c) /\ newVersion # << >>) =>
            /\ bumpType = <<"major">> => newVersion = Text(a + 1, 0, 0)
            /\ bumpType = <<"minor">> => newVersion = Text(a, b + 1, 0)
            /\ bumpType = <<"patch">> => newVersion = Text(a, b, c + 1)
            /\ bumpType \in ALLOWED_BUMPS => ~Includes(newVersion, <<"-">>)

C4_Witness ==
    /\ StoredIs(0, 9, 9)
    /\ bumpType = <<"minor">>
    /\ newVersion = Text(0, 10, 0)

(***************************************************************************)
(* Versions compared component by component as numbers: major, then        *)
(* minor, then patch.  The numeric value of a component is that of its     *)
(* leading digits, so that 1.2.3-test counts as 1.2.3.                     *)
(***************************************************************************)
LeadingValue(part) == DecimalValue(SubSeq(part, 1, SkipDigits(part, 1) - 1))

Triple(v) ==
    LET parts == SplitDots(v)
    IN  <<LeadingValue(parts[1]), LeadingValue(parts[2]), LeadingValue(parts[3])>>

IsTriple(v) ==
    /\ Len(SplitDots(v)) = 3
    /\ \A k \in 1..3 : SkipDigits(SplitDots(v)[k], 1) > 1

Greater(x, y) ==
    \/ x[1] > y[1]
    \/ x[1] = y[1] /\ x[2] > y[2]
    \/ x[1] = y[1] /\ x[2] = y[2] /\ x[3] > y[3]

Unrecognised(arg) ==
    \/ ~arg.present
    \/ /\ arg.val \notin {<<"patch">>, <<"minor">>, <<"major">>}
       /\ ~Includes(arg.val, TEST_MARK)

C6_DefaultBumpKind ==
    Unrecognised(argv) =>
        /\ pc # "start" => bumpType = <<"patch">>
        /\ \A a, b, c \in Components :
               (StoredIs(a, b, c) /\ newVersion # << >>) =>
                   newVersion = Text(a, b, c + 1)
        /\ pc = "done" =>
               \E i \in 1..Len(log) : log[i].op = "gh release create" /\ log[i].ok

C6_Witness ==
    /\ argv.present
    /\ argv.val = <<"f", "o", "o">>
    /\ StoredIs(0, 0, 9)
    /\ newVersion = Text(0, 0, 10)
    /\ pc = "done"

C6_WitnessAbsent ==
    /\ ~argv.present
    /\ newVersion # << >>
    /\ pc = "done"

(***************************************************************************)
(* C7  Idempotent synchronization: once bumpVersion has synchronized the   *)
(* files with V, a computed MAJOR.MINOR.PATCH or a literal accepted as a   *)
(* test version, synchronizing them with V again changes no file and not   *)
(* the manifest.                                                           *)
(***************************************************************************)
C7_IdempotentSync ==
    (Synced /\ (IsPlainVersion(newVersion) \/ IsTestVersion(newVersion))) =>
        /\ WrittenManifest(pkg, newVersion) = pkg
        /\ \A p \in DOMAIN files :
               files[p].exists =>
                   NewContent(p, files[p].content, newVersion) = files[p].content

(***************************************************************************)
(* C8  Fail-fast: a failed step (status query, manifest read, file write,  *)
(* archive build, commit, tag, push, release creation; not the browser     *)
(* opening) is the last thing the run did and leaves it in Failed, and a   *)
(* run in Failed stays there and does nothing more.                        *)
(***************************************************************************)
FatalFailure(i) == ~log[i].ok /\ log[i].op # "open"

C8_FailedAtOnce ==
    /\ \A i \in 1..Len(log) : FatalFailure(i) => (i = Len(log) /\ pc = "failed")
    /\ (\E i \in 1..Len(streams) : streams[i].state = "error") => pc = "crashed"
    /\ ~initial.pkg.readable =>
           (pc \in {"start", "ensureCleanGitState", "bumpVersion", "failed"}
               /\ newVersion = << >>)

C8_FailFast ==
    /\ []C8_FailedAtOnce
    /\ [][Failed => UNCHANGED vars]_vars

C8_Witness ==
    /\ pc = "failed"
    /\ Len(log) > 1
    /\ log[Len(log)].op = "git push"
    /\ ~log[Len(log)].ok

(***************************************************************************)
(* C9  Exit status: the exit code is 0 only when every step of the run     *)
(* succeeded, and it is 1 in Failed, after a failed release creation and   *)
(* after a failed archive write as well.                                   *)
(***************************************************************************)
Succeeded(op) == \E i \in 1..Len(log) : log[i].op = op /\ log[i].ok

ReachedDone ==
    /\ Synced
    /\ \A i \in 1..Len(log) : ~FatalFailure(i)
    /\ \E i, j \in 1..Len(log) :
           /\ i < j
           /\ log[i] = Entry("zip", <<OUTPUT_ZIP>>, TRUE)
           /\ log[j] = Entry("zip", <<SECOND_ZIP>>, TRUE)
    /\ Len(streams) = 2
    /\ \A i \in 1..Len(streams) : streams[i].state = "closed"
    /\ ~IsTestVersion(newVersion) =>
           /\ \A op \in ReleaseOps \ {"open"} : Succeeded(op)
           /\ \E i \in 1..Len(log) : log[i].op = "open"

C9_ExitStatus ==
    /\ exitCode = "0" => ReachedDone
    /\ Failed => exitCode = "1"
    /\ (\E i \in 1..Len(log) : FatalFailure(i)) => exitCode = "1"
    /\ (\E i \in 1..Len(streams) : streams[i].state = "error") => exitCode = "1"

C9_Witness ==
    /\ pc = "failed"
    /\ exitCode = "1"
    /\ log[Len(log)].op = "gh release create"
    /\ ~log[Len(log)].ok

C9_WitnessArchive ==
    /\ pc = "crashed"
    /\ exitCode = "1"
    /\ streams[1].state = "error"

(***************************************************************************)
(* C10  Archive completion: once createZip has returned, the stream it     *)
(* wrote is closed, so no later step runs beside an archive write.         *)
(***************************************************************************)
\* the positions of main after the i-th call of createZip has returned
AfterZip(i) ==
    IF i = 1
    THEN {"createZip2", "commit", "tag", "push", "release", "open", "returned", "done"}
    ELSE {"commit", "tag", "push", "release", "open", "returned", "done"}

C10_ArchiveCompletion ==
    \A i \in 1..Len(streams) : pc \in AfterZip(i) => streams[i].state = "closed"

(***************************************************************************)
(* C11  Missing optional target: a text file that is not there is not      *)
(* created and never written, a run that fails has failed for another      *)
(* reason (a dirty tree, a failed step, an unusable manifest), and once    *)
(* bumpVersion has returned every file that is there holds its content     *)
(* synchronized to V.                                                      *)
(***************************************************************************)
Missing(p) == ~initial.files[p].exists

WriteIssued(p) == \E i \in 1..Len(log) : log[i].op = "write" /\ log[i].arg = <<<<p>>>>

ManifestUsable ==
    initial.pkg.readable /\ (initial.pkg.hasVersion \/ IsTestVersion(bumpType))

C11_MissingTarget ==
    /\ \A p \in DOMAIN files : Missing(p) => (~files[p].exists /\ ~WriteIssued(p))
    /\ (\E p \in DOMAIN files : Missing(p)) =>
           /\ (Failed /\ ManifestUsable) =>
                  \/ ReportsPendingChange
                  \/ \E i \in 1..Len(log) : FatalFailure(i)
                  \/ \E i \in 1..Len(streams) : streams[i].state = "error"
           /\ Synced =>
                  \A q \in DOMAIN files :
                      initial.files[q].exists =>
                          files[q] = File(NewContent(q, initial.files[q].content,
                                                     newVersion))

C11_Witness ==
    /\ Missing(VALE_INI_PATH)
    /\ initial.files[README_PATH].exists
    /\ initial.files[ACCEPT_PATH].exists
    /\ ShownVersion(ACCEPT_PATH, files[ACCEPT_PATH].content) = newVersion
    /\ pc = "done"
    /\ exitCode = "0"

(***************************************************************************)
(* Download links in a text: a link to the fixed artifact begins where     *)
(* the link pattern matches; a link to another artifact is the URL prefix  *)
(* and a version followed by another file name.                            *)
(***************************************************************************)
IsLink(content, i) == LinkEnd(content, i) # 0

LinkVersion(content, i) == SubSeq(content, i + 1, LinkEnd(content, i) - 2)

OtherArtifacts == {"/config.zip"}

IsOtherLink(content, i) ==
    /\ content[i] = URL_PREFIX
    /\ VersionEnd(content, i + 1) # 0
    /\ VersionEnd(content, i + 1) <= Len(content)
    /\ content[VersionEnd(content, i + 1)] \in OtherArtifacts

RECURSIVE OtherLinksFrom(_, _)
OtherLinksFrom(content, i) ==
    IF i > Len(content) THEN << >>
    ELSE (IF IsOtherLink(content, i)
          THEN <<SubSeq(content, i, VersionEnd(content, i + 1))>>
          ELSE << >>) \o OtherLinksFrom(content, i + 1)

OtherLinks(content) == OtherLinksFrom(content, 1)

(***************************************************************************)
(* C12  All documentation links rewritten: once bumpVersion has returned   *)
(* with a version V = MAJOR.MINOR.PATCH, every link to the fixed artifact  *)
(* in README.md carries V.                                                 *)
(***************************************************************************)
C12_AllLinksRewritten ==
    (Synced /\ IsPlainVersion(newVersion) /\ files[README_PATH].exists) =>
        \A i \in 1..Len(files[README_PATH].content) :
            IsLink(files[README_PATH].content, i) =>
                LinkVersion(files[README_PATH].content, i) = newVersion

Mismatched(p) ==
    /\ initial.files[p].exists
    /\ ~FilePatternMatches(p, initial.files[p].content)

C14_PatternMismatchNoOp ==
    \A p \in DOMAIN files :
        Mismatched(p) => (files[p] = initial.files[p] /\ ~WriteIssued(p))

\* what the code does keep of it: the content is the same
C14_MismatchKeepsContent ==
    \A p \in DOMAIN files : Mismatched(p) => files[p] = initial.files[p]

\* and a failing write of such a file ends the run
C14_MismatchWriteFails ==
    \E p \in DOMAIN files :
        /\ Mismatched(p)
        /\ pc = "failed"
        /\ log[Len(log)] = Entry("write", <<<<p>>>>, FALSE)


(***************************************************************************)
(* C15  Literal independence: in a run started with a literal test version *)
(* v, the computed version is v itself whatever the manifest stored (a     *)
(* malformed or a missing version included), the manifest and every file   *)
(* that exists are, once synchronized, what v and the file's own content   *)
(* before the run give, and the run fails only for a pending change, a     *)
(* failing step or a failing stream, never for what was stored.            *)
(***************************************************************************)
LiteralRun == argv.present /\ IsTestVersion(argv.val)

C15_LiteralIndependence ==
    LiteralRun =>
        /\ newVersion \in {<< >>, argv.val}
        /\ \A stored \in StoredVersions : ComputeVersion(stored, argv.val) = argv.val
        /\ Synced =>
               /\ pkg.version = argv.val
               /\ \A p \in DOMAIN files :
                      files[p] = UpdatedFile(p, initial.files[p], argv.val)
        /\ (Failed /\ initial.pkg.readable) =>
               \/ ReportsPendingChange
               \/ \E i \in 1..Len(log) : FatalFailure(i)
               \/ \E i \in 1..Len(streams) : streams[i].state = "error"

C15_Witness ==
    /\ LiteralRun
    /\ initial.pkg.hasVersion
    /\ initial.pkg.version = <<"1", ".", "2">>
    /\ initial.files[ACCEPT_PATH].exists
    /\ ShownVersion(ACCEPT_PATH, files[ACCEPT_PATH].content) = argv.val
    /\ pkg.version = argv.val
    /\ pc = "done"
    /\ exitCode = "0"

C15_WitnessNoStoredVersion ==
    /\ LiteralRun
    /\ ~initial.pkg.hasVersion
    /\ pkg.version = argv.val
    /\ pc = "done"


(***************************************************************************)
(* C16  Malformed stored version: a run for major, minor or patch whose    *)
(* manifest stores a version that does not begin with MAJOR.MINOR.PATCH    *)
(* computes no version, writes neither the manifest nor a file, and gets   *)
(* no further than the version step, where it fails.                       *)
(***************************************************************************)
MalformedStored ==
    /\ initial.pkg.readable
    /\ initial.pkg.hasVersion
    /\ VersionEnd(initial.pkg.version, 1) = 0

C16_MalformedVersionFails ==
    (MalformedStored /\ ResolveBumpType(argv) \in ALLOWED_BUMPS) =>
        /\ newVersion = << >>
        /\ pkg = initial.pkg
        /\ files = initial.files
        /\ \A i \in 1..Len(log) : log[i].op # "write"
        /\ pc \in {"start", "ensureCleanGitState", "bumpVersion", "failed"}

\* what the code does with it: a version holding NaN is written and released
C16_MalformedVersionReleased ==
    /\ MalformedStored
    /\ bumpType = <<"patch">>
    /\ Includes(newVersion, <<"N", "a", "N">>)
    /\ pkg.version = newVersion
    /\ \E i \in 1..Len(log) : log[i].op = "gh release create" /\ log[i].ok
    /\ pc = "done"


(***************************************************************************)
(* C17  Notification is best-effort: once the opening of the release-edit  *)
(* page has failed (the release was created before it), main has returned  *)
(* and the run is never in Failed; it ends in Done with exit code 0.  The  *)
(* one other end such a run has is the crash of a write stream that was    *)
(* still open, which is not the opener's doing.                            *)
(***************************************************************************)
OpenFailed == \E i \in 1..Len(log) : log[i].op = "open" /\ ~log[i].ok

C17_NotificationBestEffort ==
    OpenFailed =>
        /\ \E i \in 1..Len(log) : log[i].op = "gh release create" /\ log[i].ok
        /\ pc # "failed"
        /\ pc \in {"returned", "done"}
               \/ (pc = "crashed" /\ \E i \in 1..Len(streams) : streams[i].state = "error")
        /\ pc = "done" => exitCode = "0"
        /\ pc = "returned" => exitCode = "none"

C17_Witness == OpenFailed /\ pc = "done" /\ exitCode = "0"


(***************************************************************************)
(* C18  Manifest rewrite: once bumpVersion has returned with the version   *)
(* V, the manifest has a version field, that field is V, and the other     *)
(* fields of the manifest are the ones the run found.                      *)
(***************************************************************************)
C18_ManifestRewrite ==
    Synced =>
        /\ pkg.readable
        /\ pkg.hasVersion
        /\ pkg.version = newVersion
        /\ pkg.rest = initial.pkg.rest

C18_Witness ==
    /\ Synced
    /\ StoredPlain
    /\ bumpType = <<"minor">>
    /\ pkg.version = newVersion
    /\ pkg.version # initial.pkg.version
    /\ pc = "done"


(***************************************************************************)
(* C19  Two archives per run: a run that has ended after both calls of     *)
(* createZip returned (a test-literal run included) leaves the archive     *)
(* named after V and the archive dist/DNB.zip, both written out and        *)
(* closed, and both holding the same entries with the same contents.       *)
(***************************************************************************)
ArchivesBuilt ==
    \E i \in 1..Len(log) : log[i] = Entry("zip", <<SECOND_ZIP>>, TRUE)

Ended == pc \in {"done", "failed", "crashed"}

C19_TwoArchives ==
    (ArchivesBuilt /\ Ended) =>
        /\ Len(streams) = 2
        /\ streams[1].path = VersionedZip(newVersion)
        /\ streams[2].path = SECOND_ZIP
        /\ streams[1].state = "closed"
        /\ streams[2].state = "closed"
        /\ streams[1].entries = streams[2].entries

\* what the code does keep of it: the two archives are given the same entries
C19_SameEntries ==
    ArchivesBuilt =>
        /\ Len(streams) = 2
        /\ streams[1].path = VersionedZip(newVersion)
        /\ streams[2].path = SECOND_ZIP
        /\ streams[1].entries = streams[2].entries
        /\ pc = "done" => (streams[1].state = "closed" /\ streams[2].state = "closed")

\* a run that ends while an archive is still being written
C19_ArchiveCutShort ==
    /\ ArchivesBuilt
    /\ pc = "failed"
    /\ log[Len(log)].op = "git commit"
    /\ streams[2].state = "open"
    /\ streams[2].entries # {}

(***************************************************************************)
(* C20  Archive content fidelity: the entry names of an archive that has   *)
(* been written out are the paths, relative to src, of the files below     *)
(* src, each with the content of its file, and no entry name begins with   *)
(* src.                                                                    *)
(***************************************************************************)
RelativePaths(tree) ==
    {SubSeq(PathSegments(p), 2, Len(PathSegments(p))) :
        p \in {q \in DOMAIN tree : tree[q].exists /\ PathSegments(q)[1] = SRC_DIR}}

C20_ArchiveContentFidelity ==
    \A i \in 1..Len(streams) :
        streams[i].state = "closed" =>
            /\ {e.name : e \in streams[i].entries} = RelativePaths(files)
            /\ \A e \in streams[i].entries :
                   /\ e.name # << >>
                   /\ e.name[1] # SRC_DIR
                   /\ \E p \in DOMAIN files :
                          /\ PathSegments(p) = <<SRC_DIR>> \o e.name
                          /\ files[p] = File(e.content)

C20_Witness ==
    /\ pc = "done"
    /\ Len(streams) = 2
    /\ streams[2].state = "closed"
    /\ Cardinality(streams[2].entries) = 2
    /\ \E e \in streams[2].entries : e.name = <<"DNB", ".vale.ini">>

C20_WitnessEmptyTree ==
    /\ pc = "done"
    /\ Len(streams) = 2
    /\ streams[1].state = "closed"
    /\ streams[1].entries = {}


(***************************************************************************)
(* C21  Step ordering: the steps a run has executed are in the order       *)
(* status query, manifest and file writes, versioned archive, stable       *)
(* archive, commit, tag, push, release creation, notification, none of     *)
(* them twice, and a step is started only when what the steps before it    *)
(* began has completed: no archive stream is still open when it starts.    *)
(***************************************************************************)
StepRank(entry) ==
    CASE entry.op = "git status" -> 1
      [] entry.op = "write" -> 2
      [] entry.op = "zip" /\ entry.arg # <<SECOND_ZIP>> -> 3
      [] entry.op = "zip" /\ entry.arg = <<SECOND_ZIP>> -> 4
      [] entry.op = "git commit" -> 5
      [] entry.op = "git tag" -> 6
      [] entry.op = "git push" -> 7
      [] entry.op = "gh release create" -> 8
      [] OTHER -> 9

\* package.json first, then the files in the order of SYNC_ORDER
WriteRank(entry) ==
    IF entry.arg = <<<<PACKAGE_PATH>>>> THEN 0 ELSE Position(entry.arg[1][1])

C21_InOrder ==
    \A i, j \in 1..Len(log) :
        i < j =>
            \/ StepRank(log[i]) < StepRank(log[j])
            \/ /\ log[i].op = "write"
               /\ log[j].op = "write"
               /\ WriteRank(log[i]) < WriteRank(log[j])

C21_StepOrdering ==
    /\ []C21_InOrder
    /\ [][Len(log') > Len(log) =>
              \A i \in 1..Len(streams) : streams[i].state # "open"]_vars

\* the order of the steps alone is what the code keeps
C21_WitnessInOrder ==
    /\ pc = "done"
    /\ Len(log) > 8
    /\ log[Len(log)].op = "open"

\* a step running beside an archive write
C21_StepBesideArchiveWrite ==
    /\ pc = "tag"
    /\ log[Len(log)] = Entry("git commit", <<TagName(newVersion)>>, TRUE)
    /\ streams[1].state = "open"
    /\ streams[2].state = "open"


(***************************************************************************)
(* C22  Release identity: when the release command has been issued in a    *)
(* run with the version V, its tag is v<V>, its attachments are            *)
(* dist/dnb-vale-config-v<V>.zip and dist/DNB.zip, the two paths the       *)
(* archives of this run were written to, and before it the commit, then    *)
(* the tag v<V>, then the push have succeeded, in that order.              *)
(***************************************************************************)
ReleaseIssuedAt(i) == log[i].op = "gh release create"

C22_ReleaseIdentity ==
    \A r \in 1..Len(log) :
        ReleaseIssuedAt(r) =>
            /\ newVersion # << >>
            /\ log[r].arg = <<<<"v">> \o newVersion,
                              <<"dist/dnb-vale-config-v">> \o newVersion \o <<".zip">>,
                              <<"dist/DNB.zip">>>>
            /\ Len(streams) = 2
            /\ <<streams[1].path, streams[2].path>> = <<log[r].arg[2], log[r].arg[3]>>
            /\ \E c, t, p \in 1..(r - 1) :
                   /\ c < t
                   /\ t < p
                   /\ log[c] = Entry("git commit", <<log[r].arg[1]>>, TRUE)
                   /\ log[t] = Entry("git tag", <<log[r].arg[1]>>, TRUE)
                   /\ log[p] = Entry("git push", << >>, TRUE)

C22_Witness ==
    /\ pc = "open"
    /\ ReleaseIssuedAt(Len(log))
    /\ log[Len(log)].ok
    /\ StoredIs(0, 9, 9)
    /\ bumpType = <<"minor">>
    /\ log[Len(log)].arg[1] = <<"v", "0", ".", "1", "0", ".", "0">>


(***************************************************************************)
(* C23  No rollback: in a run that has ended without a commit, the         *)
(* manifest and every file whose write was completed hold the content for  *)
(* V, every file no write was issued for holds the content the run found,  *)
(* and no file has been written a second time.                             *)
(***************************************************************************)
WriteAt(i, p) == log[i].op = "write" /\ log[i].arg = <<<<p>>>>

\* the write of p was issued and returned: it succeeded, or the run has
\* gone on after it
WriteCompleted(p) ==
    \E i \in 1..Len(log) : WriteAt(i, p) /\ (log[i].ok \/ i < Len(log))

EndedUncommitted == Ended /\ ~Succeeded("git commit")

C23_NoRollback ==
    EndedUncommitted =>
        /\ WriteCompleted(PACKAGE_PATH) =>
               (pkg.version = newVersion /\ pkg.rest = initial.pkg.rest)
        /\ ~WriteIssued(PACKAGE_PATH) => pkg = initial.pkg
        /\ \A p \in DOMAIN files :
               /\ WriteCompleted(p) =>
                      files[p] = File(NewContent(p, initial.files[p].content, newVersion))
               /\ ~WriteIssued(p) => files[p] = initial.files[p]
        /\ \A i, j \in 1..Len(log) :
               (i < j /\ log[i].op = "write" /\ log[j].op = "write") =>
                   log[i].arg # log[j].arg

\* the run failed in the middle of the synchronization: the ini file is
\* new, the README is as it was
C23_Witness ==
    /\ pc = "failed"
    /\ exitCode = "1"
    /\ log[Len(log)] = Entry("write", <<<<README_PATH>>>>, FALSE)
    /\ WriteCompleted(VALE_INI_PATH)
    /\ files[VALE_INI_PATH] # initial.files[VALE_INI_PATH]
    /\ ShownVersion(VALE_INI_PATH, files[VALE_INI_PATH].content) = newVersion
    /\ files[README_PATH] = initial.files[README_PATH]
    /\ pkg.version = newVersion

\* the run failed after the synchronization, before the commit
C23_WitnessAfterSync ==
    /\ pc = "failed"
    /\ log[Len(log)].op = "git commit"
    /\ pkg # initial.pkg
    /\ files # initial.files


(***************************************************************************)
(* C24  Run termination: when every awaited call returns or fails and      *)
(* every stream closes or fails, a run that has computed a version gets    *)
(* to Done or to Failed (the exit of the catch, or the crash of the        *)
(* process on a stream error).                                             *)
(***************************************************************************)
VersionComputed == newVersion # << >>

\* every awaited call returns or fails, every stream closes or fails, and
\* the process ends when the event loop is empty
MainStep ==
    \/ ResolveArgument
    \/ EnsureCleanGitState
    \/ BumpVersion
    \/ CreateVersionedZip
    \/ CreateSecondZip
    \/ GitCommit
    \/ GitTag
    \/ GitPush
    \/ GhReleaseCreate
    \/ OpenReleaseEditPage

StreamStep == \E i \in 1..Len(streams) : StreamClose(i) \/ StreamError(i)

\* one tree and one manifest, every argument and every answer of git
LiveInit ==
    /\ Init
    /\ pkg.readable
    /\ pkg.hasVersion
    /\ pkg.version \in {Text(0, 0, 9), <<"1", ".", "2">>}
    /\ FilePatternMatches(VALE_INI_PATH, files[VALE_INI_PATH].content)
    /\ files[VALE_INI_PATH].content[1] = "#"
    /\ files[ACCEPT_PATH].exists
    /\ files[README_PATH].exists
    /\ Len(OtherLinks(files[README_PATH].content)) = 1
    /\ FilePatternMatches(README_PATH, files[README_PATH].content)

LiveSpec ==
    /\ LiveInit
    /\ [][Next]_vars
    /\ WF_vars(MainStep)
    /\ WF_vars(StreamStep)
    /\ WF_vars(Exit)


C24_RunTermination == VersionComputed ~> (pc = "done" \/ Failed)

C24_Witness == VersionComputed /\ pc = "done" /\ Len(log) > 8

C24_WitnessFailed == VersionComputed /\ pc = "crashed"


(***************************************************************************)
(* C25  Archives carry the new version: in a run with a target version V   *)
(* that is a computed MAJOR.MINOR.PATCH or a literal holding the test      *)
(* marker, every archive is begun after bumpVersion has returned, and      *)
(* when the ini file was there with a matching pattern, its copy in the    *)
(* archive shows exactly V to that pattern.                                *)
(***************************************************************************)
IniEntryName == <<"DNB", ".vale.ini">>

IniMatched ==
    /\ initial.files[VALE_INI_PATH].exists
    /\ FilePatternMatches(VALE_INI_PATH, initial.files[VALE_INI_PATH].content)

C25_ArchivesHoldSyncedFiles ==
    \A i \in 1..Len(streams) :
        /\ Synced
        /\ \A p \in DOMAIN files :
               (initial.files[p].exists /\ PathSegments(p)[1] = SRC_DIR) =>
                   \E e \in streams[i].entries :
                       /\ <<SRC_DIR>> \o e.name = PathSegments(p)
                       /\ e.content = NewContent(p, initial.files[p].content, newVersion)

C25_WitnessNewVersion ==
    /\ pc = "done"
    /\ IniMatched
    /\ bumpType = <<"major">>
    /\ \A i \in 1..2 :
           \E e \in streams[i].entries :
               /\ e.name = IniEntryName
               /\ ShownVersion(VALE_INI_PATH, e.content) = newVersion
               /\ e.content # initial.files[VALE_INI_PATH].content

\* the copy in the archive shows another version than the run's literal
C25_WitnessLiteral ==
    /\ pc = "done"
    /\ IniMatched
    /\ IsTestVersion(newVersion)
    /\ \E e \in streams[1].entries :
           /\ e.name = IniEntryName
           /\ ShownVersion(VALE_INI_PATH, e.content) # newVersion


(***************************************************************************)
(* C26  No double bump after a failure.  The script is started again       *)
(* while the changes of a run that ended without a commit are still in     *)
(* the work tree: package.json, the files and the log file are what that   *)
(* run left, everything else is that of a new process, and the answer of   *)
(* `git status --porcelain` names the files that differ from the commit.   *)
(***************************************************************************)
MaxRuns == 2

TRACKED == <<PACKAGE_PATH>> \o SYNC_ORDER

Modified(p) ==
    IF p = PACKAGE_PATH THEN pkg # initial.pkg ELSE files[p] # initial.files[p]

TreeModified == \E k \in 1..Len(TRACKED) : Modified(TRACKED[k])

\* the line of a modified file in the porcelain format
StatusLine(p) == <<" ", "M", " ", p, "\n">>

RECURSIVE PorcelainFrom(_)
PorcelainFrom(k) ==
    IF k > Len(TRACKED) THEN << >>
    ELSE (IF Modified(TRACKED[k]) THEN StatusLine(TRACKED[k]) ELSE << >>)
             \o PorcelainFrom(k + 1)

RunsStarted ==
    1 + Cardinality({i \in 1..Len(log) : log[i].op = "node release.js"})

StartLaterRun ==
    /\ Ended
    /\ ~Succeeded("git commit")
    /\ TreeModified
    /\ RunsStarted < MaxRuns
    /\ pc' = "start"
    /\ argv' \in Arguments
    /\ git' \in {[ok |-> TRUE, stdout |-> PorcelainFrom(1)],
                 [ok |-> FALSE, stdout |-> << >>]}
    /\ log' = Append(log, Entry("node release.js", <<argv'.val>>, TRUE))
    /\ bumpType' = << >>
    /\ newVersion' = << >>
    /\ OUTPUT_ZIP' = << >>
    /\ streams' = << >>
    /\ exitCode' = "none"
    /\ UNCHANGED <<pkg, files, initial>>

NextWithLaterRun == Next \/ StartLaterRun

RerunSpec == LiveInit /\ [][NextWithLaterRun]_vars

\* the index of the log entry the latest run began with
LaterRunStart ==
    CHOOSE i \in 0..Len(log) :
        /\ i > 0 => log[i].op = "node release.js"
        /\ \A j \in (i + 1)..Len(log) : log[j].op # "node release.js"

InLaterRun == LaterRunStart > 0

\* C26: a later run gets no further than the status query, where it fails
\* with exit code 1; it computes no version, opens no archive and issues no
\* write, so package.json has been written once at most.
C26_NoDoubleBump ==
    InLaterRun =>
        /\ TreeModified
        /\ pc \in {"start", "ensureCleanGitState", "failed"}
        /\ pc = "failed" => exitCode = "1"
        /\ newVersion = << >>
        /\ streams = << >>
        /\ \A j \in (LaterRunStart + 1)..Len(log) : log[j].op = "git status"
        /\ Cardinality({i \in 1..Len(log) : WriteAt(i, PACKAGE_PATH)}) <= 1

C26_Witness ==
    /\ InLaterRun
    /\ pc = "failed"
    /\ log[Len(log)] = Entry("git status", << >>, TRUE)
    /\ log[LaterRunStart - 1].op = "git commit"
    /\ pkg.version # initial.pkg.version
    /\ argv.val = <<"patch">>

=============================================================================
